---------------------------- MODULE Spec2Model ----------------------------
(***************************************************************************)
(* Model of components/mbedtls/port/esp32/aes.c: the ESP32 hardware AES    *)
(* driver (lock, key programming, single block operation), the two       *)
(* internal block functions and the six mode drivers layered on it (ECB,   *)
(* CBC, CFB128, CFB8, CTR, OFB).                                           *)
(*                                                                         *)
(* Buffers are sequences of bytes (0..255); C offset k is index k+1.  A    *)
(* call is executed as a small-step machine (one record M per caller:     *)
(* context, call frame, hardware, abort flag); a whole call is the        *)
(* iteration of that step until the call returns or the process aborts.   *)
(***************************************************************************)
EXTENDS Integers, Sequences, FiniteSets, TLC

(***************************************************************************)
(* Bounds of the model.                                                    *)
(***************************************************************************)
MaxBlocks == 2        \* longest buffer of the interleaved model, in blocks
MaxRoundTrip == 48    \* longest buffer of the round-trip model, in bytes
MaxStream == 18       \* bytes of one stream of the chained-call model
MaxKeySkip == 1       \* key-word writes an injected fault may skip
MaxPair == 20         \* longest buffer of the two-input model, in bytes

(***************************************************************************)
(* Program constants.                                                      *)
(***************************************************************************)
ESP_AES_ENCRYPT == 1
ESP_AES_DECRYPT == 0
MODE_DECRYPT_BIT == 4
BLOCK == 16

OK == "0"
ERR_INVALID_KEY_LENGTH == "MBEDTLS_ERR_AES_INVALID_KEY_LENGTH"
ERR_INVALID_INPUT_LENGTH == "MBEDTLS_ERR_AES_INVALID_INPUT_LENGTH"
ERR_BAD_INPUT_DATA == "MBEDTLS_ERR_AES_BAD_INPUT_DATA"

(***************************************************************************)
(* Bytes and blocks.                                                       *)
(***************************************************************************)
Bit(x, k) == (x \div (2 ^ k)) % 2

Xor(a, b) ==
    LET X(k) == ((Bit(a, k) + Bit(b, k)) % 2) * (2 ^ k)
    IN  X(0) + X(1) + X(2) + X(3) + X(4) + X(5) + X(6) + X(7)

Zeros(n) == [i \in 1..n |-> 0]

\* The n bytes of buffer b that start at C offset o.
Slice(b, o, n) == [i \in 1..n |-> b[o + i]]

\* Buffer b with the bytes of s stored from C offset o on (memcpy).
Store(b, o, s) ==
    [i \in 1..Len(b) |-> IF i > o /\ i <= o + Len(s) THEN s[i - o] ELSE b[i]]

XorBlock(x, y) == [i \in 1..Len(x) |-> Xor(x[i], y[i])]

\* The element of a one-element set.  {e(x) : x \in {v}} computes v once and
\* names it x in e; Only takes the result out of the set.
Only(S) == CHOOSE x \in S : TRUE

(***************************************************************************)
(* The AES peripheral's block transform: an opaque keyed permutation of    *)
(* 16-byte blocks, selected by the key registers and the mode register    *)
(* (bit 2: decrypt, bits 0..1: key length class 0/1/2 = 128/192/256).     *)
(* The decrypt direction inverts the encrypt direction under the same key.*)
(***************************************************************************)
HwKeyLen(mode_reg) == ((mode_reg % 4) + 2) * 8

HwTweak(key_regs, mode_reg, i) ==
    LET klen == HwKeyLen(mode_reg)
    IN  (key_regs[i + 1] + key_regs[klen - i] + klen) % 256

HwCipher(key_regs, mode_reg, text) ==
    IF (mode_reg % 8) < MODE_DECRYPT_BIT
    THEN [j \in 1..BLOCK |->
            (text[(j % BLOCK) + 1] + HwTweak(key_regs, mode_reg, j - 1)) % 256]
    ELSE [j \in 1..BLOCK |->
            LET i == (j + 14) % BLOCK
            IN  (text[i + 1] + 256 - HwTweak(key_regs, mode_reg, i)) % 256]


(***************************************************************************)
(* esp_aes_context and the key-set operation.                              *)
(***************************************************************************)
ZeroCtx == [key |-> Zeros(32), key_bytes |-> 0, key_in_hardware |-> 0]

valid_key_length(ctx) ==
    ctx.key_bytes = 128 \div 8 \/ ctx.key_bytes = 192 \div 8 \/ ctx.key_bytes = 256 \div 8

esp_aes_init(ctx) == ZeroCtx

esp_aes_free(ctx) == ZeroCtx

\* A faulty variant of esp_aes_setkey: the length is stored before it is validated.
esp_aes_setkey_StoresFirst(ctx, key, keybits) ==
    IF keybits # 128 /\ keybits # 192 /\ keybits # 256
    THEN [ctx |-> [ctx EXCEPT !.key_bytes = (keybits \div 8) % 256,
                              !.key_in_hardware = 0],
          ret |-> ERR_INVALID_KEY_LENGTH]
    ELSE [ctx |-> [key |-> Store(ctx.key, 0, Slice(key, 0, keybits \div 8)),
                   key_bytes |-> keybits \div 8,
                   key_in_hardware |-> 0],
          ret |-> OK]

\* Returns the new context and the return code.
esp_aes_setkey(ctx, key, keybits) ==
    IF keybits # 128 /\ keybits # 192 /\ keybits # 256
    THEN [ctx |-> ctx, ret |-> ERR_INVALID_KEY_LENGTH]
    ELSE [ctx |-> [key |-> Store(ctx.key, 0, Slice(key, 0, keybits \div 8)),
                   key_bytes |-> keybits \div 8,
                   key_in_hardware |-> 0],
          ret |-> OK]

(***************************************************************************)
(* The shared peripheral: the spinlock (0 = unlocked, else the holder),    *)
(* the clock/power gate, and the key, mode and text registers.  users is   *)
(* history: the callers that accessed a register since the last acquire.   *)
(***************************************************************************)
HwReset ==
    [lock |-> 0, enabled |-> FALSE, key |-> Zeros(32), mode_reg |-> 0,
     text |-> Zeros(BLOCK), users |-> {}]

(***************************************************************************)
(* A call frame: the arguments, the locals and the position of one call.   *)
(*   iv      the iv[16] / nonce_counter[16] argument                       *)
(*   sb      the stream_block[16] argument (CTR)                           *)
(*   off     the cell *iv_off / *nc_off                                    *)
(*   inp,out the input and output buffers; alias: they are the same memory *)
(*   pos     bytes consumed so far (input - initial input)                 *)
(*   regs    i0..i3 of esp_aes_block;  temp: temp[16] (CBC) / ov[0..15]    *)
(*           (CFB8);  r: the last block operation's return value           *)
(*   ov16    ov[16] of CFB8: a local the call does not initialise; it is   *)
(*           Uninitialised until the call assigns or first reads it        *)
(*   len0, off0: history, the length and the offset as passed              *)
(*   acquires, releases, keyloads, blocks, blkerrs: history counters       *)
(***************************************************************************)
Uninitialised == -1

NoCall ==
    [fn |-> "none", pc |-> "idle", mode |-> ESP_AES_ENCRYPT, length |-> 0,
     len0 |-> 0, off |-> 0, off0 |-> 0, n |-> 0, iv |-> Zeros(BLOCK), sb |-> Zeros(BLOCK),
     inp |-> << >>, out |-> << >>, alias |-> FALSE, nullarg |-> FALSE,
     pos |-> 0, regs |-> Zeros(BLOCK), temp |-> Zeros(BLOCK), r |-> OK,
     ret |-> OK, keybits |-> 0, ov16 |-> Uninitialised,
     acquires |-> 0, releases |-> 0, keyloads |-> 0, blocks |-> 0, blkerrs |-> 0]

\* The frame of a fresh call with arguments a.
NewCall(a) ==
    [NoCall EXCEPT !.fn = a.fn, !.pc = "entry", !.mode = a.mode,
                   !.length = a.length, !.len0 = a.length, !.off = a.off,
                   !.off0 = a.off,
                   !.iv = a.iv, !.sb = a.sb,
                   !.inp = a.inp,
                   !.out = IF a.alias THEN a.inp ELSE Zeros(Len(a.inp)),
                   !.alias = a.alias, !.nullarg = a.nullarg]

\* *(input + k): with aliased buffers the input is whatever the output holds.
In(f, k) == IF f.alias THEN f.out[k + 1] ELSE f.inp[k + 1]

InBlock(f, o) == [i \in 1..BLOCK |-> In(f, o + i - 1)]

\* One caller's machine: its id, its context, its frame, the hardware and
\* whether the process has aborted.
Machine(id, ctx, f, hw, ab) == [id |-> id, ctx |-> ctx, f |-> f, hw |-> hw, ab |-> ab]

Touch(hw, id) == [hw EXCEPT !.users = @ \cup {id}]

(***************************************************************************)
(* esp_aes_acquire_hardware / esp_aes_release_hardware.                    *)
(***************************************************************************)
\* A faulty variant of LockFree: a lock that never blocks.
LockFree_NeverBlocks(hw) == TRUE

\* portENTER_CRITICAL lets a caller in only while nobody holds the spinlock.
LockFree(hw) == hw.lock = 0

esp_aes_acquire_hardware(M) ==
    [M EXCEPT !.hw = [@ EXCEPT !.lock = M.id, !.enabled = TRUE, !.users = {}],
              !.f = [@ EXCEPT !.acquires = @ + 1, !.pc = "setkey"]]

\* A faulty variant of esp_aes_release_hardware: the critical section is left with the peripheral still enabled.
esp_aes_release_hardware_StaysOn(M) ==
    [M EXCEPT !.hw = [HwReset EXCEPT !.enabled = TRUE, !.lock = 0],
              !.f = [@ EXCEPT !.releases = @ + 1, !.pc = "ret"]]

\* A faulty variant of esp_aes_release_hardware: the spinlock is not given back.
esp_aes_release_hardware_KeepsLock(M) ==
    [M EXCEPT !.hw = [HwReset EXCEPT !.enabled = FALSE, !.lock = M.id],
              !.f = [@ EXCEPT !.releases = @ + 1, !.pc = "ret"]]

\* periph_module_disable gates the unit's clock and holds it in reset: the
\* register contents do not survive to the next acquisition.
esp_aes_release_hardware(M) ==
    [M EXCEPT !.hw = [HwReset EXCEPT !.enabled = FALSE, !.lock = 0],
              !.f = [@ EXCEPT !.releases = @ + 1, !.pc = "ret"]]

(***************************************************************************)
(* esp_aes_setkey_hardware.  skip is the number of iterations of the key   *)
(* loop an injected fault cuts off (0 without a fault).                   *)
(***************************************************************************)
\* The value is computed in unsigned arithmetic; AES_MODE_REG keeps its three
\* low bits, and 8 divides 2^32.
ModeRegValue(ctx, mode) ==
    LET mode_reg_base == IF mode = ESP_AES_ENCRYPT THEN 0 ELSE MODE_DECRYPT_BIT
    IN  (mode_reg_base + ((ctx.key_bytes \div 8) - 2)) % 8

\* A faulty variant of esp_aes_setkey_hardware: the words written are neither counted nor verified.
esp_aes_setkey_hardware_NoCount(M, mode, skip) ==
    [M EXCEPT !.hw = [Touch(M.hw, M.id) EXCEPT
                         !.key = Store(@, 0, Slice(M.ctx.key, 0, M.ctx.key_bytes)),
                         !.mode_reg = ModeRegValue(M.ctx, mode)],
              !.f = [@ EXCEPT !.keyloads = @ + 1, !.pc = "loop"]]

\* A faulty variant of esp_aes_setkey_hardware: the count of words written is not verified.
esp_aes_setkey_hardware_NoFaultCheck(M, mode, skip) ==
    LET words   == M.ctx.key_bytes \div 4
        written == IF skip > words THEN 0 ELSE words - skip
        kih     == 4 * written
    IN  [M EXCEPT !.ctx = [@ EXCEPT !.key_in_hardware = kih],
                  !.hw = [Touch(M.hw, M.id) EXCEPT
                             !.key = Store(@, 0, Slice(M.ctx.key, 0, kih)),
                             !.mode_reg = ModeRegValue(M.ctx, mode)],
                  !.f = [@ EXCEPT !.keyloads = @ + 1, !.pc = "loop"]]

esp_aes_setkey_hardware(M, mode, skip) ==
    LET words   == M.ctx.key_bytes \div 4
        written == IF skip > words THEN 0 ELSE words - skip
        kih     == 4 * written
        hw1     == [Touch(M.hw, M.id) EXCEPT
                       !.key = Store(@, 0, Slice(M.ctx.key, 0, kih)),
                       !.mode_reg = ModeRegValue(M.ctx, mode)]
        fatal   == kih < 16 \/ kih # M.ctx.key_bytes
    IN  [M EXCEPT !.ctx = [@ EXCEPT !.key_in_hardware = kih],
                  !.hw = hw1,
                  !.ab = fatal,
                  !.f = [@ EXCEPT !.keyloads = @ + 1,
                                  !.pc = IF fatal THEN "aborted" ELSE "loop"]]

\* A faulty variant of KeyDirection: every driver programs the requested direction.
KeyDirection_AsRequested(f) == f.mode

\* The entry points that run one block operation without a loop:
\* esp_internal_aes_encrypt, esp_internal_aes_decrypt and esp_aes_crypt_ecb.
SingleBlockFns == {"internal_encrypt", "internal_decrypt", "ecb"}

SingleBlock(f) == f.fn \in SingleBlockFns

\* The direction each entry point programs: the internal block functions
\* have no mode argument and program a fixed direction.
KeyDirection(f) ==
    CASE f.fn = "internal_encrypt" -> ESP_AES_ENCRYPT
      [] f.fn = "internal_decrypt" -> ESP_AES_DECRYPT
      [] f.fn \in {"ecb", "cbc"} -> f.mode
      [] OTHER -> ESP_AES_ENCRYPT

(***************************************************************************)
(* esp_aes_block, in three parts: the key check and the text register      *)
(* writes; the start and the wait for idle; the read-back and the fault    *)
(* check.  The block's source and destination depend on the driver.        *)
(***************************************************************************)
BlockSrc(f) ==
    CASE SingleBlock(f) -> InBlock(f, 0)
      [] f.fn = "cbc" /\ f.mode = ESP_AES_DECRYPT -> InBlock(f, f.pos)
      [] f.fn = "cbc" -> Slice(f.out, f.pos, BLOCK)
      [] OTHER -> f.iv

BlockDst(f) ==
    CASE SingleBlock(f) -> Slice(f.out, 0, BLOCK)
      [] f.fn = "cbc" -> Slice(f.out, f.pos, BLOCK)
      [] f.fn = "ctr" -> f.sb
      [] OTHER -> f.iv

SetBlockDst(f, b) ==
    CASE SingleBlock(f) -> [f EXCEPT !.out = Store(@, 0, b)]
      [] f.fn = "cbc" -> [f EXCEPT !.out = Store(@, f.pos, b)]
      [] f.fn = "ctr" -> [f EXCEPT !.sb = b]
      [] OTHER -> [f EXCEPT !.iv = b]

\* Lines 147-164: TRUE when the loaded-key check fails.
BlockKeyMismatch(ctx) == ctx.key_in_hardware # ctx.key_bytes

BlockRejected(M) ==
    [M EXCEPT !.f = [SetBlockDst(@, Zeros(BLOCK)) EXCEPT
                        !.r = ERR_INVALID_INPUT_LENGTH, !.blkerrs = @ + 1]]

BlockWriteText(M) ==
    LET src == BlockSrc(M.f)
    IN  [M EXCEPT !.f = [@ EXCEPT !.regs = src, !.pc = "blk_start"],
                  !.hw = [Touch(@, M.id) EXCEPT !.text = src]]

\* Lines 166-168: fault is an injected skip of the hardware operation.
BlockStart(M, fault) ==
    [M EXCEPT !.hw = [Touch(@, M.id) EXCEPT
                         !.text = IF fault THEN @
                                  ELSE HwCipher(M.hw.key, M.hw.mode_reg, @)],
              !.f = [@ EXCEPT !.blocks = @ + 1, !.pc = "blk_read"]]

\* A faulty variant of FaultDetected: the output-equals-input check is missing.
FaultDetected_Never(regs, output) == FALSE

\* Lines 170-187.
FaultDetected(regs, output) == regs = output

BlockReadBack(M) ==
    LET output == M.hw.text
        fatal  == FaultDetected(M.f.regs, output)
    IN  [M EXCEPT !.hw = Touch(@, M.id),
                  !.ab = fatal,
                  !.f = [SetBlockDst(@, IF fatal THEN Zeros(BLOCK) ELSE output)
                            EXCEPT !.pc = IF fatal THEN "aborted" ELSE "blk_read"]]

(***************************************************************************)
(* The mode drivers: argument checks, and the body of one loop iteration   *)
(* before and after its block operation.                                   *)
(***************************************************************************)
HasOffset(f) == f.fn \in {"cfb128", "ctr", "ofb"}

\* A faulty variant of EntryCheck: CBC validates the key length before the input length.
EntryCheck_KeyFirst(f, ctx) ==
    CASE f.fn = "ofb" ->
            IF f.nullarg THEN ERR_BAD_INPUT_DATA
            ELSE IF f.off > 15 THEN ERR_BAD_INPUT_DATA
            ELSE IF ~valid_key_length(ctx) THEN ERR_INVALID_KEY_LENGTH
            ELSE OK
      [] OTHER ->
            IF ~valid_key_length(ctx) THEN ERR_INVALID_KEY_LENGTH
            ELSE IF f.fn = "cbc" /\ f.length % 16 # 0 THEN ERR_INVALID_INPUT_LENGTH
            ELSE OK

\* A faulty variant of EntryCheck: CFB8 does not validate the key length.
EntryCheck_Cfb8Unchecked(f, ctx) ==
    CASE f.fn = "cbc" ->
            IF f.length % 16 # 0 THEN ERR_INVALID_INPUT_LENGTH
            ELSE IF ~valid_key_length(ctx) THEN ERR_INVALID_KEY_LENGTH
            ELSE OK
      [] f.fn = "ofb" ->
            IF f.nullarg THEN ERR_BAD_INPUT_DATA
            ELSE IF f.off > 15 THEN ERR_BAD_INPUT_DATA
            ELSE IF ~valid_key_length(ctx) THEN ERR_INVALID_KEY_LENGTH
            ELSE OK
      [] f.fn = "cfb8" -> OK
      [] OTHER ->
            IF ~valid_key_length(ctx) THEN ERR_INVALID_KEY_LENGTH ELSE OK

\* A faulty variant of EntryCheck: OFB does not test its references for null.
EntryCheck_OfbNullUnchecked(f, ctx) ==
    CASE f.fn = "cbc" ->
            IF f.length % 16 # 0 THEN ERR_INVALID_INPUT_LENGTH
            ELSE IF ~valid_key_length(ctx) THEN ERR_INVALID_KEY_LENGTH
            ELSE OK
      [] f.fn = "ofb" ->
            IF f.off > 15 THEN ERR_BAD_INPUT_DATA
            ELSE IF ~valid_key_length(ctx) THEN ERR_INVALID_KEY_LENGTH
            ELSE OK
      [] OTHER ->
            IF ~valid_key_length(ctx) THEN ERR_INVALID_KEY_LENGTH ELSE OK

\* The checks each entry point makes before it acquires the hardware.
EntryCheck(f, ctx) ==
    CASE f.fn = "cbc" ->
            IF f.length % 16 # 0 THEN ERR_INVALID_INPUT_LENGTH
            ELSE IF ~valid_key_length(ctx) THEN ERR_INVALID_KEY_LENGTH
            ELSE OK
      [] f.fn = "ofb" ->
            IF f.nullarg THEN ERR_BAD_INPUT_DATA
            ELSE IF f.off > 15 THEN ERR_BAD_INPUT_DATA
            ELSE IF ~valid_key_length(ctx) THEN ERR_INVALID_KEY_LENGTH
            ELSE OK
      [] OTHER ->
            IF ~valid_key_length(ctx) THEN ERR_INVALID_KEY_LENGTH ELSE OK

Enter(M) ==
    LET ret == EntryCheck(M.f, M.ctx)
    IN  [M EXCEPT !.f = [@ EXCEPT
            !.n = IF HasOffset(M.f) /\ ~M.f.nullarg THEN M.f.off ELSE @,
            !.ret = ret,
            !.pc = IF ret = OK THEN "acquire" ELSE "ret"]]

\* A faulty variant of ProgramKey: a context whose key counts as loaded is not programmed again.
ProgramKey_OnlyIfNotLoaded(M, skip) ==
    IF M.ctx.key_in_hardware = M.ctx.key_bytes
    THEN [M EXCEPT !.f = [@ EXCEPT !.pc = "loop"]]
    ELSE esp_aes_setkey_hardware(M, KeyDirection(M.f), skip)

\* ctx->key_in_hardware = 0 (every driver but OFB), then the key programming.
ProgramKey(M, skip) ==
    Only({esp_aes_setkey_hardware(M1, KeyDirection(M1.f), skip) :
          M1 \in {IF M.f.fn = "ofb" THEN M
                  ELSE [M EXCEPT !.ctx = [@ EXCEPT !.key_in_hardware = 0]]}})

\* A faulty variant of IncrementCounter: the carry is dropped.
IncrementCounter_NoCarry(nc, i) ==
    IF i = 0 THEN nc ELSE [nc EXCEPT ![i] = (@ + 1) % 256]

\* for ( i = 16; i > 0; i-- ) if ( ++nonce_counter[i - 1] != 0 ) break;
RECURSIVE IncrementCounter(_, _)
IncrementCounter(nc, i) ==
    IF i = 0 THEN nc
    ELSE LET v == (nc[i] + 1) % 256
         IN  IF v # 0 THEN [nc EXCEPT ![i] = v]
             ELSE IncrementCounter([nc EXCEPT ![i] = v], i - 1)

LoopDone(f) == ~SingleBlock(f) /\ f.length = 0

\* while ( length-- ) of the byte-wise drivers.
LoopTest(f) ==
    IF f.fn \in {"cfb128", "cfb8", "ctr", "ofb"}
    THEN [f EXCEPT !.length = @ - 1] ELSE f

\* A faulty variant of NeedsBlock: a call also starts with a fresh block.
NeedsBlock_AtCallStart(f) == IF HasOffset(f) THEN f.n = 0 \/ f.pos = 0 ELSE TRUE

NeedsBlock(f) == IF HasOffset(f) THEN f.n = 0 ELSE TRUE

\* The body of one iteration of each driver's loop, split at its block
\* operation where it has one.
CbcDecryptBefore(f) == [f EXCEPT !.temp = InBlock(f, f.pos)]

\* A faulty variant of CbcDecryptAfter: the next IV is taken from the decrypted output.
CbcDecryptAfter_IvFromOutput(f) ==
    LET plain == XorBlock(Slice(f.out, f.pos, BLOCK), f.iv)
    IN  [f EXCEPT !.out = Store(@, f.pos, plain),
                  !.iv = plain,
                  !.pos = @ + BLOCK, !.length = @ - BLOCK]

\* A faulty variant of CbcDecryptAfter: the next IV is read from the input buffer after the output was written.
CbcDecryptAfter_IvFromInput(f) ==
    LET f1 == [f EXCEPT !.out = Store(@, f.pos, XorBlock(Slice(@, f.pos, BLOCK), f.iv))]
    IN  [f1 EXCEPT !.iv = InBlock(f1, f.pos),
                   !.pos = @ + BLOCK, !.length = @ - BLOCK]

CbcDecryptAfter(f) ==
    [f EXCEPT !.out = Store(@, f.pos, XorBlock(Slice(@, f.pos, BLOCK), f.iv)),
              !.iv = f.temp,
              !.pos = @ + BLOCK, !.length = @ - BLOCK]

CbcEncryptBefore(f) ==
    [f EXCEPT !.out = Store(@, f.pos, XorBlock(InBlock(f, f.pos), f.iv))]

CbcEncryptAfter(f) ==
    [f EXCEPT !.iv = Slice(f.out, f.pos, BLOCK),
              !.pos = @ + BLOCK, !.length = @ - BLOCK]

Cfb128DecryptByte(f) ==
    LET c == In(f, f.pos)
    IN  [f EXCEPT !.out[f.pos + 1] = Xor(c, f.iv[f.n + 1]),
                  !.iv[f.n + 1] = c,
                  !.n = (@ + 1) % 16, !.pos = @ + 1]

Cfb128EncryptByte(f) ==
    LET c == Xor(f.iv[f.n + 1], In(f, f.pos))
    IN  [f EXCEPT !.out[f.pos + 1] = c,
                  !.iv[f.n + 1] = c,
                  !.n = (@ + 1) % 16, !.pos = @ + 1]

Cfb8Before(f) == [f EXCEPT !.temp = f.iv]

\* A faulty variant of Cfb8After: the produced byte is fed back in both directions.
Cfb8After_FeedsBackOutput(f, stale) ==
    LET c == Xor(f.iv[1], In(f, f.pos))
    IN  [f EXCEPT !.out[f.pos + 1] = c,
                  !.ov16 = c,
                  !.iv = [i \in 1..BLOCK |->
                            IF i < BLOCK THEN f.temp[i + 1] ELSE c],
                  !.pos = @ + 1]

\* Lines 402-412.  ov[16] is assigned the input byte if mode is
\* ESP_AES_DECRYPT (line 402, before the output byte is written) and the
\* produced byte if mode is ESP_AES_ENCRYPT (line 408); with any other mode
\* neither test holds and line 412 reads ov[16] as the stack left it: stale
\* is the byte that first read yields, and the byte stays in ov[16] for the
\* rest of the call.  The new IV is ov[1..16].
Cfb8After(f, stale) ==
    LET c    == Xor(f.iv[1], In(f, f.pos))
        ov16 == IF f.mode = ESP_AES_DECRYPT THEN In(f, f.pos)
                ELSE IF f.mode = ESP_AES_ENCRYPT THEN c
                ELSE IF f.ov16 = Uninitialised THEN stale
                ELSE f.ov16
    IN  [f EXCEPT !.out[f.pos + 1] = c,
                  !.ov16 = ov16,
                  !.iv = [i \in 1..BLOCK |->
                            IF i < BLOCK THEN f.temp[i + 1] ELSE ov16],
                  !.pos = @ + 1]

CtrByte(f) ==
    [f EXCEPT !.out[f.pos + 1] = Xor(In(f, f.pos), f.sb[f.n + 1]),
              !.n = (@ + 1) % 16, !.pos = @ + 1]

\* A faulty variant of OfbByte: the output byte is fed back into the IV, as in CFB128.
OfbByte_CiphertextFeedback(f) ==
    LET c == Xor(In(f, f.pos), f.iv[f.n + 1])
    IN  [f EXCEPT !.out[f.pos + 1] = c,
                  !.iv[f.n + 1] = c,
                  !.n = (@ + 1) % 16, !.pos = @ + 1]

OfbByte(f) ==
    [f EXCEPT !.out[f.pos + 1] = Xor(In(f, f.pos), f.iv[f.n + 1]),
              !.n = (@ + 1) % 16, !.pos = @ + 1]

\* The statements of an iteration that precede its block operation.
BeforeBlock(f) ==
    CASE f.fn = "cbc" /\ f.mode = ESP_AES_DECRYPT -> CbcDecryptBefore(f)
      [] f.fn = "cbc" -> CbcEncryptBefore(f)
      [] f.fn = "cfb8" -> Cfb8Before(f)
      [] OTHER -> f

\* The statements inside if ( n == 0 ) that follow the block operation.
AfterBlock(f) ==
    IF f.fn = "ctr" THEN [f EXCEPT !.iv = IncrementCounter(@, BLOCK)] ELSE f

\* The rest of the iteration (the single-block entry points: r is the value
\* returned; stale: what a read of an uninitialised ov[16] yields).
ByteStep(f, stale) ==
    CASE SingleBlock(f) -> [f EXCEPT !.ret = f.r]
      [] f.fn = "cbc" /\ f.mode = ESP_AES_DECRYPT -> CbcDecryptAfter(f)
      [] f.fn = "cbc" -> CbcEncryptAfter(f)
      [] f.fn = "cfb128" /\ f.mode = ESP_AES_DECRYPT -> Cfb128DecryptByte(f)
      [] f.fn = "cfb128" -> Cfb128EncryptByte(f)
      [] f.fn = "cfb8" -> Cfb8After(f, stale)
      [] f.fn = "ctr" -> CtrByte(f)
      [] OTHER -> OfbByte(f)

FinishIteration(M, ranBlock, stale) ==
    Only({[M EXCEPT !.f = [ByteStep(f1, stale) EXCEPT
                              !.pc = IF SingleBlock(f1) THEN "release" ELSE "loop"]] :
          f1 \in {IF ranBlock THEN AfterBlock(M.f) ELSE M.f}})

\* A faulty variant of LoopStep: the offset is not stored back on exit.
LoopStep_OffsetNotStored(M, stale) ==
    IF LoopDone(M.f)
    THEN [M EXCEPT !.f = [@ EXCEPT !.pc = "release"]]
    ELSE LET M1 == [M EXCEPT !.f = BeforeBlock(LoopTest(@))]
         IN  IF ~NeedsBlock(M1.f) THEN FinishIteration(M1, FALSE, stale)
             ELSE IF BlockKeyMismatch(M1.ctx)
                  THEN FinishIteration(BlockRejected(M1), TRUE, stale)
                  ELSE BlockWriteText(M1)

\* A faulty variant of LoopStep: the offset stored on exit is 0.
LoopStep_ExitClearsOffset(M, stale) ==
    IF LoopDone(M.f)
    THEN [M EXCEPT !.f = [@ EXCEPT !.off = IF HasOffset(M.f) THEN 0 ELSE @,
                                   !.pc = "release"]]
    ELSE LET M1 == [M EXCEPT !.f = BeforeBlock(LoopTest(@))]
         IN  IF ~NeedsBlock(M1.f) THEN FinishIteration(M1, FALSE, stale)
             ELSE IF BlockKeyMismatch(M1.ctx)
                  THEN FinishIteration(BlockRejected(M1), TRUE, stale)
                  ELSE BlockWriteText(M1)

\* The loop head up to the text register writes of the iteration's block
\* operation, or the whole iteration when it needs no block operation.
LoopStep(M, stale) ==
    IF LoopDone(M.f)
    THEN [M EXCEPT !.f = [@ EXCEPT !.off = IF HasOffset(M.f) THEN M.f.n ELSE @,
                                   !.pc = "release"]]
    ELSE Only({IF ~NeedsBlock(M1.f) THEN FinishIteration(M1, FALSE, stale)
               ELSE IF BlockKeyMismatch(M1.ctx)
                    THEN FinishIteration(BlockRejected(M1), TRUE, stale)
                    ELSE BlockWriteText(M1) :
               M1 \in {[M EXCEPT !.f = BeforeBlock(LoopTest(@))]}})

BlockFinish(M, stale) ==
    Only({IF M1.ab THEN M1 ELSE FinishIteration(M1, TRUE, stale) : M1 \in {BlockReadBack(M)}})

(***************************************************************************)
(* One step of a call, and a whole call run on otherwise idle hardware     *)
(* without a fault (a call so run has one of the two directions, so it     *)
(* reads no uninitialised byte).                                           *)
(***************************************************************************)
Step(M, skip, fault, stale) ==
    CASE M.f.pc = "entry"     -> Enter(M)
      [] M.f.pc = "acquire"   -> esp_aes_acquire_hardware(M)
      [] M.f.pc = "setkey"    -> ProgramKey(M, skip)
      [] M.f.pc = "loop"      -> LoopStep(M, stale)
      [] M.f.pc = "blk_start" -> BlockStart(M, fault)
      [] M.f.pc = "blk_read"  -> BlockFinish(M, stale)
      [] M.f.pc = "release"   -> esp_aes_release_hardware(M)
      [] OTHER -> M

Returned(M) == M.f.pc = "ret"

RECURSIVE Run(_)
Run(M) ==
    IF M.ab \/ Returned(M) \/ M.f.pc = "idle" THEN M
    ELSE IF M.f.pc = "acquire" /\ ~LockFree(M.hw) THEN M
    ELSE Run(Step(M, 0, FALSE, 0))

(***************************************************************************)
(* Inputs of the models.                                                   *)
(***************************************************************************)
\* Two concurrent callers of the shared peripheral.
Callers == {1, 2}

\* The key material of caller p (32 bytes; set_key uses a prefix of it).
KeyOf(p) == [i \in 1..32 |-> (41 * p + 11 * i) % 256]

Pattern(seed, n) == [i \in 1..n |-> (seed + 29 * i) % 256]

IV0 == Pattern(3, BLOCK)

KeyBitsTried == {128, 256, 64, 512}

\* The arguments of a call; length is the length argument (the single-block
\* entry points have none: their buffers hold one block; the internal block
\* functions have no mode argument either, their frames keep the default).
ArgOf(fn, mode, off, iv, sb, inp, alias) ==
    [fn |-> fn, mode |-> mode, length |-> Len(inp), off |-> off, iv |-> iv,
     sb |-> sb, inp |-> inp, alias |-> alias, nullarg |-> FALSE]

Arg(fn, mode, length, off, alias, nullarg) ==
    [ArgOf(fn, mode, off, IV0, Zeros(BLOCK),
           Pattern(7, IF fn \in SingleBlockFns THEN BLOCK ELSE length), alias)
        EXCEPT !.length = length, !.nullarg = nullarg]

Directions == {ESP_AES_ENCRYPT, ESP_AES_DECRYPT}

\* mode is an int: a value that is neither direction.
OtherMode == 2

\* What the stack may hold where ov[16] is: any byte.
StaleBytes == 0..255

ModeValues == Directions \cup {OtherMode}

\* The outcomes of the step frame f is about to take reading ov[16]: every
\* byte if CFB8 has not assigned it and will not, one (unused) otherwise.
StaleReads(f) ==
    IF f.fn = "cfb8" /\ f.mode \notin Directions /\ f.ov16 = Uninitialised
    THEN StaleBytes
    ELSE {0}

\* The calls the callers of the interleaved model make: every entry point, with
\* buffers of up to MaxBlocks blocks, the calls its argument checks reject,
\* and calls of length 0.  (The CFB8 model further down makes the CFB8 calls
\* whose mode is neither direction.)
LongLen == BLOCK * (MaxBlocks - 1) + 1

CallArgs ==
    {Arg("internal_encrypt", ESP_AES_ENCRYPT, BLOCK, 0, TRUE, FALSE),
     Arg("internal_decrypt", ESP_AES_ENCRYPT, BLOCK, 0, FALSE, FALSE),
     Arg("ecb", ESP_AES_ENCRYPT, BLOCK, 0, FALSE, FALSE),
     Arg("ecb", ESP_AES_DECRYPT, BLOCK, 0, TRUE, FALSE),
     Arg("cbc", ESP_AES_ENCRYPT, BLOCK * MaxBlocks, 0, FALSE, FALSE),
     Arg("cbc", ESP_AES_DECRYPT, BLOCK * MaxBlocks, 0, TRUE, FALSE),
     Arg("cbc", ESP_AES_ENCRYPT, LongLen, 0, FALSE, FALSE),
     Arg("cbc", ESP_AES_DECRYPT, 1, 0, FALSE, FALSE),
     Arg("cfb128", ESP_AES_ENCRYPT, LongLen, 0, FALSE, FALSE),
     Arg("cfb128", ESP_AES_DECRYPT, LongLen, 0, FALSE, FALSE),
     Arg("cfb8", ESP_AES_ENCRYPT, MaxBlocks, 0, FALSE, FALSE),
     Arg("cfb8", ESP_AES_DECRYPT, MaxBlocks, 0, FALSE, FALSE),
     Arg("ctr", ESP_AES_ENCRYPT, LongLen, 0, FALSE, FALSE),
     Arg("ofb", ESP_AES_ENCRYPT, LongLen, 0, FALSE, FALSE),
     Arg("ofb", ESP_AES_ENCRYPT, LongLen, 16, FALSE, FALSE),
     Arg("ofb", ESP_AES_ENCRYPT, 1, 0, FALSE, TRUE),
     Arg("cbc", ESP_AES_DECRYPT, 0, 0, FALSE, FALSE),
     Arg("cfb128", ESP_AES_ENCRYPT, 0, 5, FALSE, FALSE),
     Arg("cfb8", ESP_AES_DECRYPT, 0, 0, FALSE, FALSE),
     Arg("ctr", ESP_AES_ENCRYPT, 0, 0, FALSE, FALSE),
     Arg("ofb", ESP_AES_ENCRYPT, 0, 15, FALSE, FALSE)}

(***************************************************************************)
(* The interleaved model: the callers, each owning a context, set         *)
(* keys and run mode calls against the one peripheral.  abort() ends the   *)
(* whole process.                                                          *)
(***************************************************************************)
\* trial is the bookkeeping of the trial models further down (the
\* inputs of a trial and what its calls produced so far); unused here.
VARIABLES ctx, call, hw, aborted, trial

vars == <<ctx, call, hw, aborted, trial>>

NoTrial == [kind |-> "none"]

MachineOf(p) == Machine(p, ctx[p], call[p], hw, FALSE)

\* The variables after caller p's machine became next.
Becomes(p, next) ==
    \E M \in {next} :
        /\ ctx' = [ctx EXCEPT ![p] = M.ctx]
        /\ call' = [call EXCEPT ![p] = M.f]
        /\ hw' = M.hw
        /\ aborted' = M.ab

At(p, pc) == ~aborted /\ call[p].pc = pc

Init ==
    /\ ctx = [p \in Callers |-> esp_aes_init(ZeroCtx)]
    /\ call = [p \in Callers |-> NoCall]
    /\ hw = HwReset
    /\ aborted = FALSE
    /\ trial = NoTrial

SetKey(p) ==
    /\ At(p, "idle")
    /\ \E keybits \in KeyBitsTried :
          LET res == esp_aes_setkey(ctx[p], KeyOf(p), keybits)
          IN  /\ ctx' = [ctx EXCEPT ![p] = res.ctx]
              /\ call' = [call EXCEPT ![p] =
                            [NoCall EXCEPT !.fn = "setkey", !.keybits = keybits,
                                           !.ret = res.ret]]
    /\ UNCHANGED <<hw, aborted, trial>>

Free(p) ==
    /\ At(p, "idle")
    /\ ctx' = [ctx EXCEPT ![p] = esp_aes_free(@)]
    /\ call' = [call EXCEPT ![p] = NoCall]
    /\ UNCHANGED <<hw, aborted, trial>>

Call(p) ==
    /\ At(p, "idle")
    /\ \E a \in CallArgs : call' = [call EXCEPT ![p] = NewCall(a)]
    /\ UNCHANGED <<ctx, hw, aborted, trial>>

Validate(p) ==
    /\ At(p, "entry")
    /\ Becomes(p, Enter(MachineOf(p)))
    /\ UNCHANGED trial

Acquire(p) ==
    /\ At(p, "acquire")
    /\ LockFree(hw)
    /\ Becomes(p, esp_aes_acquire_hardware(MachineOf(p)))
    /\ UNCHANGED trial

LoadKey(p) ==
    /\ At(p, "setkey")
    /\ \E skip \in 0..MaxKeySkip : Becomes(p, ProgramKey(MachineOf(p), skip))
    /\ UNCHANGED trial

Loop(p) ==
    /\ At(p, "loop")
    /\ \E stale \in StaleReads(call[p]) : Becomes(p, LoopStep(MachineOf(p), stale))
    /\ UNCHANGED trial

StartBlock(p) ==
    /\ At(p, "blk_start")
    /\ \E fault \in BOOLEAN : Becomes(p, BlockStart(MachineOf(p), fault))
    /\ UNCHANGED trial

FinishBlock(p) ==
    /\ At(p, "blk_read")
    /\ \E stale \in StaleReads(call[p]) :
          Becomes(p, BlockFinish(MachineOf(p), stale))
    /\ UNCHANGED trial

Release(p) ==
    /\ At(p, "release")
    /\ Becomes(p, esp_aes_release_hardware(MachineOf(p)))
    /\ UNCHANGED trial

\* The caller takes the results; its next operation may follow.
Return(p) ==
    /\ At(p, "ret")
    /\ call' = [call EXCEPT ![p] = NoCall]
    /\ UNCHANGED <<ctx, hw, aborted, trial>>

Next ==
    \E p \in Callers :
        \/ SetKey(p)
        \/ Free(p)
        \/ Call(p)
        \/ Validate(p)
        \/ Acquire(p)
        \/ LoadKey(p)
        \/ Loop(p)
        \/ StartBlock(p)
        \/ FinishBlock(p)
        \/ Release(p)
        \/ Return(p)

Spec == Init /\ [][Next]_vars

(***************************************************************************)
(* Properties of the interleaved model.                                    *)
(***************************************************************************)
\* Caller p is between its acquire and its release.
InCS(p) == call[p].pc \in {"setkey", "loop", "blk_start", "blk_read", "release"}

\* Caller p took a step.
Stepped(p) == call'[p] # call[p]

\* C1: while a caller is between its acquire and its release it holds the
\* lock, no other caller is between acquire and release, and every register
\* access made since its acquire is its own.
C1_Exclusive ==
    \A p \in Callers :
        InCS(p) =>
            /\ hw.lock = p
            /\ hw.users \subseteq {p}
            /\ \A q \in Callers \ {p} : ~InCS(q)

\* A caller is in the middle of a multi-block call, past its first block,
\* while the other waits to acquire the hardware for a multi-block call.
C1_Witness ==
    \E p, q \in Callers :
        /\ p # q
        /\ call[p].pc = "blk_start" /\ call[p].blocks >= 1
        /\ call[p].fn \in {"cbc", "cfb128", "cfb8", "ctr", "ofb"}
        /\ hw.users = {p}
        /\ call[q].pc = "acquire"
        /\ call[q].fn \in {"cbc", "cfb128", "cfb8", "ctr", "ofb"}
        /\ call[q].length > BLOCK

\* C2: a call acquires at most once and releases exactly as often; key
\* programming and block operations happen only between the acquire and the
\* release; a call that passed its argument checks acquires exactly once; and
\* when a call has returned it does not hold the lock and the peripheral is
\* off unless another caller has acquired it since.
C2_AcquireReleasePaired ==
    \A p \in Callers :
        LET f == call[p]
        IN  /\ f.pc \in {"idle", "entry", "acquire"} =>
                f.acquires = 0 /\ f.releases = 0 /\ f.keyloads = 0 /\ f.blocks = 0
            /\ (InCS(p) \/ f.pc = "aborted") => f.acquires = 1 /\ f.releases = 0
            /\ InCS(p) => hw.lock = p /\ hw.enabled
            /\ f.pc = "ret" =>
                /\ f.acquires = f.releases
                /\ f.acquires = (IF EntryCheck(f, ctx[p]) = OK THEN 1 ELSE 0)
                /\ f.acquires = 0 => f.keyloads = 0 /\ f.blocks = 0
                /\ f.acquires = 1 => f.keyloads = 1
                /\ hw.lock # p
                /\ hw.enabled => hw.lock \in Callers \ {p}

\* A multi-block call has returned successfully, and so has a call that its
\* argument checks rejected.
C2_Witness ==
    \E p, q \in Callers :
        /\ call[p].pc = "ret" /\ call[p].ret = OK /\ call[p].blocks >= 2
        /\ call[p].acquires = 1 /\ call[p].releases = 1
        /\ call[q].pc = "ret" /\ call[q].ret # OK /\ call[q].acquires = 0
        /\ ~hw.enabled

\* C3: when the block read back equals the block written, the step that
\* reads it back aborts the process with the destination block zeroed, and
\* after an abort no caller ever takes another step.
C3_FaultAborts ==
    [][/\ \A p \in Callers :
            (call[p].pc = "blk_read" /\ hw.text = call[p].regs /\ Stepped(p)) =>
                /\ aborted'
                /\ call'[p].pc = "aborted"
                /\ BlockDst(call'[p]) = Zeros(BLOCK)
       /\ aborted => UNCHANGED vars]_vars

\* The process aborted in an in-place ECB call whose block came back unchanged.
C3_Witness ==
    /\ aborted
    /\ \E p \in Callers :
        /\ call[p].pc = "aborted" /\ call[p].fn = "ecb" /\ call[p].alias
        /\ call[p].blocks = 1 /\ call[p].regs = Pattern(7, BLOCK)
        /\ call[p].out = Zeros(BLOCK)

\* C6: a set_key step with a bit length other than 128, 192 or 256 returns
\* InvalidKeyLength and leaves key bytes, key length and loaded count as
\* they were.
C6_SetKeyRejects ==
    [][\A p \in Callers :
          (/\ call[p].pc = "idle"
           /\ call'[p].pc = "idle"
           /\ call'[p].fn = "setkey"
           /\ call'[p].keybits \notin {128, 192, 256}) =>
              /\ call'[p].ret = ERR_INVALID_KEY_LENGTH
              /\ ctx'[p] = ctx[p]]_vars

\* set_key was rejected on a context that holds a key loaded by an earlier call.
C6_Witness ==
    \E p \in Callers :
        /\ call[p].pc = "idle" /\ call[p].fn = "setkey" /\ call[p].keybits = 512
        /\ call[p].ret = ERR_INVALID_KEY_LENGTH
        /\ ctx[p].key_bytes = 32 /\ ctx[p].key_in_hardware = 32
        /\ ctx[p].key = KeyOf(p)

\* The frame fields a rejected call must leave alone.
Untouched(p) ==
    /\ call'[p].iv = call[p].iv /\ call'[p].sb = call[p].sb
    /\ call'[p].off = call[p].off
    /\ call'[p].out = call[p].out /\ call'[p].inp = call[p].inp
    /\ call'[p].acquires = 0 /\ call'[p].keyloads = 0 /\ call'[p].blocks = 0
    /\ ctx'[p] = ctx[p]
    /\ hw' = hw
    /\ aborted' = aborted

\* C7: the entry step of a CBC call whose length is not a multiple of 16
\* returns InvalidInputLength with the lock, the registers, the IV and the
\* output buffer untouched.
C7_CbcLengthRejected ==
    [][\A p \in Callers :
          (/\ call[p].pc = "entry" /\ call[p].fn = "cbc"
           /\ call[p].length % 16 # 0
           /\ Stepped(p)) =>
              /\ call'[p].pc = "ret"
              /\ call'[p].ret = ERR_INVALID_INPUT_LENGTH
              /\ Untouched(p)]_vars

\* A CBC call of 17 bytes was rejected while the other caller holds the
\* hardware.
C7_Witness ==
    \E p, q \in Callers :
        /\ call[p].pc = "ret" /\ call[p].fn = "cbc" /\ call[p].len0 = LongLen
        /\ call[p].ret = ERR_INVALID_INPUT_LENGTH
        /\ call[p].out = Zeros(LongLen) /\ call[p].iv = IV0
        /\ hw.lock = q /\ q # p

\* C8 as stated: with an invalid key length every entry point returns
\* InvalidKeyLength whatever its other arguments are.
C8_AlwaysInvalidKeyLength ==
    [][\A p \in Callers :
          (/\ call[p].pc = "entry" /\ ~valid_key_length(ctx[p])
           /\ ~call[p].nullarg
           /\ Stepped(p)) =>
              /\ call'[p].pc = "ret"
              /\ call'[p].ret = ERR_INVALID_KEY_LENGTH
              /\ Untouched(p)]_vars

\* C8, amended: with an invalid key length every entry point returns an
\* error with nothing touched; the error is InvalidKeyLength unless an
\* earlier argument check fails (CBC: a length that is not a multiple of 16
\* gives InvalidInputLength; OFB: a null reference or an offset above 15
\* gives BadInputData).
C8_InvalidKeyRejected ==
    [][\A p \in Callers :
          (/\ call[p].pc = "entry" /\ ~valid_key_length(ctx[p])
           /\ Stepped(p)) =>
              /\ call'[p].pc = "ret"
              /\ call'[p].ret =
                    (IF call[p].fn = "cbc" /\ call[p].length % 16 # 0
                     THEN ERR_INVALID_INPUT_LENGTH
                     ELSE IF call[p].fn = "ofb" /\ (call[p].nullarg \/ call[p].off > 15)
                     THEN ERR_BAD_INPUT_DATA
                     ELSE ERR_INVALID_KEY_LENGTH)
              /\ Untouched(p)]_vars

\* Calls of two different drivers, CFB8 and a multi-block CBC, were rejected
\* for the key length with their output buffers untouched.
C8_Witness ==
    \E p, q \in Callers :
        /\ p # q
        /\ call[p].pc = "ret" /\ call[p].fn = "cfb8"
        /\ call[p].ret = ERR_INVALID_KEY_LENGTH /\ ctx[p].key_bytes = 0
        /\ call[q].pc = "ret" /\ call[q].fn = "cbc" /\ call[q].len0 = BLOCK * MaxBlocks
        /\ call[q].ret = ERR_INVALID_KEY_LENGTH
        /\ call[q].out = Zeros(BLOCK * MaxBlocks)

\* C11: the entry step of an OFB call with a null reference or with an
\* offset above 15 returns BadInputData, whatever the key length is, without
\* acquiring the lock or touching a register, and leaves the IV, the offset
\* and the output buffer as they were.
C11_OfbBadInput ==
    [][\A p \in Callers :
          (/\ call[p].pc = "entry" /\ call[p].fn = "ofb"
           /\ (call[p].nullarg \/ call[p].off > 15)
           /\ Stepped(p)) =>
              /\ call'[p].pc = "ret"
              /\ call'[p].ret = ERR_BAD_INPUT_DATA
              /\ Untouched(p)]_vars

\* With valid keys set, an OFB call with offset 16 and an OFB call with a
\* null reference were both rejected with BadInputData, buffers untouched.
C11_Witness ==
    \E p, q \in Callers :
        /\ p # q
        /\ call[p].pc = "ret" /\ call[p].fn = "ofb" /\ call[p].off = 16
        /\ ~call[p].nullarg /\ valid_key_length(ctx[p])
        /\ call[p].ret = ERR_BAD_INPUT_DATA
        /\ call[p].out = Zeros(LongLen) /\ call[p].iv = IV0
        /\ call[q].pc = "ret" /\ call[q].fn = "ofb" /\ call[q].nullarg
        /\ valid_key_length(ctx[q])
        /\ call[q].ret = ERR_BAD_INPUT_DATA /\ call[q].acquires = 0

\* The call of frame f asks the block cipher to decrypt: ECB and CBC by
\* their mode argument, esp_internal_aes_decrypt always.
DecryptRequested(f) ==
    \/ f.fn = "internal_decrypt"
    \/ f.fn \in {"ecb", "cbc"} /\ f.mode = ESP_AES_DECRYPT

\* Caller p is inside a block operation: text written, not yet read back.
InBlockOp(p) == call[p].pc \in {"blk_start", "blk_read"}

\* C12: key programming happens once per acquisition, after the acquire and
\* before the first block operation; whenever a block operation is under
\* way, the key registers and the mode register hold the key and the
\* direction of the calling context, written during this acquisition.
C12_KeyProgrammedPerAcquisition ==
    \A p \in Callers :
        LET f == call[p]
            kb == ctx[p].key_bytes
        IN  /\ f.pc = "setkey" => f.acquires = 1 /\ f.keyloads = 0 /\ f.blocks = 0
            /\ f.blocks > 0 => f.keyloads = 1
            /\ InBlockOp(p) =>
                /\ f.acquires = 1 /\ f.releases = 0 /\ f.keyloads = 1
                /\ hw.lock = p
                /\ ctx[p].key_in_hardware = kb
                /\ Slice(hw.key, 0, kb) = Slice(ctx[p].key, 0, kb)
                /\ hw.mode_reg = (IF DecryptRequested(f)
                                  THEN MODE_DECRYPT_BIT ELSE 0) + (kb \div 8) - 2

\* A caller with a 128-bit key is in its second block operation under its own
\* key, while the other context, with a 256-bit key, waits for the lock
\* after it was loaded in an earlier acquisition.
C12_Witness ==
    \E p, q \in Callers :
        /\ p # q
        /\ call[p].pc = "blk_start" /\ call[p].blocks = 1
        /\ ctx[p].key_bytes = 16
        /\ Slice(hw.key, 0, 16) = Slice(KeyOf(p), 0, 16)
        /\ ctx[q].key_bytes = 32 /\ ctx[q].key_in_hardware = 32
        /\ call[q].pc = "acquire"

\* Caller p has programmed the key of this acquisition.
KeyProgrammed(p) == call[p].pc \in {"loop", "blk_start", "blk_read", "release"}

\* C13: once a call has programmed the key, the decrypt bit of the mode
\* register is clear in a CFB128, CFB8, CTR or OFB call whatever direction
\* was requested, and set in an ECB or CBC call exactly when decryption was
\* requested (in a call of the internal block functions: exactly in
\* esp_internal_aes_decrypt); and every block operation a stream-mode call
\* starts replaces the text registers by their encryption under the loaded
\* key, unless a fault skips it.
C13_StreamModesEncrypt ==
    [][\A p \in Callers :
          /\ KeyProgrammed(p) =>
               IF call[p].fn \in {"cfb128", "cfb8", "ctr", "ofb"}
               THEN hw.mode_reg < MODE_DECRYPT_BIT
               ELSE (hw.mode_reg >= MODE_DECRYPT_BIT) <=> DecryptRequested(call[p])
          /\ (/\ call[p].pc = "blk_start"
              /\ call[p].fn \in {"cfb128", "cfb8", "ctr", "ofb"}
              /\ Stepped(p)) =>
                 \/ hw'.text = hw.text
                 \/ hw'.text = HwCipher(hw.key, (ctx[p].key_bytes \div 8) - 2, hw.text)]_vars

\* A CFB128 decryption has run a block operation as an encryption, and the
\* other caller's CBC decryption has completed two block operations.
C13_Witness ==
    \E p, q \in Callers :
        /\ call[p].pc = "blk_read" /\ call[p].fn = "cfb128"
        /\ call[p].mode = ESP_AES_DECRYPT
        /\ hw.mode_reg < MODE_DECRYPT_BIT
        /\ hw.text = HwCipher(hw.key, (ctx[p].key_bytes \div 8) - 2, call[p].regs)
        /\ hw.text # call[p].regs
        /\ call[q].pc = "ret" /\ call[q].fn = "cbc" /\ call[q].mode = ESP_AES_DECRYPT
        /\ call[q].blocks = MaxBlocks /\ call[q].ret = OK

\* C16: a key programming step writes the first k words of the context's
\* key to the key registers, k being the loaded count divided by 4 and at
\* most key_length/4, then the mode register, and no text register; it
\* aborts the process, before any block operation, exactly when the loaded
\* count differs from the key length.  Without a fault the programming of a
\* validated context writes key_length/4 words and does not abort, and the
\* loaded count equals the key length for the rest of the acquisition.
C16_KeyProgramming ==
    [][\A p \in Callers :
          LET f  == call[p]
              kb == ctx[p].key_bytes
          IN  /\ KeyProgrammed(p) \/ InBlockOp(p) => ctx[p].key_in_hardware = kb
              /\ f.pc = "setkey" =>
                    \A M \in {ProgramKey(MachineOf(p), 0)} :
                        /\ ~M.ab /\ M.f.pc = "loop"
                        /\ M.ctx.key_in_hardware = kb
                        /\ M.hw.key = Store(hw.key, 0, Slice(ctx[p].key, 0, kb))
              /\ (f.pc = "setkey" /\ Stepped(p)) =>
                    LET kih == ctx'[p].key_in_hardware
                    IN  /\ kih % 4 = 0 /\ kih <= kb
                        /\ ctx'[p] = [ctx[p] EXCEPT !.key_in_hardware = kih]
                        /\ hw'.key = Store(hw.key, 0, Slice(ctx[p].key, 0, kih))
                        /\ hw'.mode_reg = (IF DecryptRequested(f)
                                           THEN MODE_DECRYPT_BIT ELSE 0) + (kb \div 8) - 2
                        /\ hw'.text = hw.text
                        /\ call'[p].keyloads = 1 /\ call'[p].blocks = 0
                        /\ IF kih = kb
                           THEN ~aborted' /\ call'[p].pc = "loop"
                           ELSE aborted' /\ call'[p].pc = "aborted"]_vars

\* A fault cut the programming of a 256-bit key one word short and the
\* process aborted with no text register written; the other context's
\* 128-bit key was programmed in full by a call that has returned.
C16_Witness ==
    \E p, q \in Callers :
        /\ p # q /\ aborted
        /\ call[p].pc = "aborted" /\ call[p].keyloads = 1 /\ call[p].blocks = 0
        /\ ctx[p].key_bytes = 32 /\ ctx[p].key_in_hardware = 28
        /\ Slice(hw.key, 0, 28) = Slice(KeyOf(p), 0, 28)
        /\ Slice(hw.key, 28, 4) = Zeros(4)
        /\ hw.text = Zeros(BLOCK)
        /\ call[q].pc = "ret" /\ call[q].ret = OK /\ call[q].keyloads = 1
        /\ ctx[q].key_bytes = 16 /\ ctx[q].key_in_hardware = 16

\* C18: no block operation of a mode call is ever rejected for its loaded
\* count: whenever a block operation is about to start or under way the
\* loaded count equals the key length, the count of rejected block
\* operations stays 0, and a call that returns success has had every one of
\* its block operations return success.  (Injected faults abort the process
\* and so never lead to a rejected block operation either.)
C18_BlockNeverRejected ==
    \A p \in Callers :
        LET f == call[p]
        IN  /\ f.blkerrs = 0
            /\ f.r = OK
            /\ (f.pc = "loop" \/ InBlockOp(p)) => ~BlockKeyMismatch(ctx[p])
            /\ (f.pc = "ret" /\ f.ret = OK /\ f.fn = "cbc") =>
                  f.blocks = f.len0 \div BLOCK

\* A two-block CBC encryption under a 256-bit key returned success with both
\* block operations run and a non-zero last output block, while the other
\* caller's CTR call is in a block operation.
C18_Witness ==
    \E p, q \in Callers :
        /\ call[p].pc = "ret" /\ call[p].fn = "cbc" /\ call[p].mode = ESP_AES_ENCRYPT
        /\ call[p].ret = OK /\ call[p].blocks = MaxBlocks /\ call[p].blkerrs = 0
        /\ ctx[p].key_bytes = 32 /\ ctx[p].key_in_hardware = 32
        /\ Slice(call[p].out, BLOCK * (MaxBlocks - 1), BLOCK) # Zeros(BLOCK)
        /\ call[q].pc = "blk_read" /\ call[q].fn = "ctr"
        /\ ctx[q].key_in_hardware = ctx[q].key_bytes

\* C20: no step of a mode call changes the key bytes or the key length of
\* its context; and no step of a CBC, CFB128, CFB8, CTR or OFB call of
\* length 0 changes the IV/counter, the stream block, the offset or the
\* output buffer, starts a block operation or writes a text register.
C20_FrameEffects ==
    [][\A p \in Callers :
          /\ (call[p].pc # "idle" /\ Stepped(p)) =>
                /\ ctx'[p].key = ctx[p].key
                /\ ctx'[p].key_bytes = ctx[p].key_bytes
          /\ (/\ call[p].pc \notin {"idle", "ret"}
              /\ call[p].fn \in {"cbc", "cfb128", "cfb8", "ctr", "ofb"}
              /\ call[p].len0 = 0
              /\ Stepped(p)) =>
                /\ call'[p].iv = call[p].iv /\ call'[p].sb = call[p].sb
                /\ call'[p].off = call[p].off /\ call'[p].out = call[p].out
                /\ call'[p].blocks = 0 /\ call'[p].blkerrs = 0
                /\ hw'.text = hw.text]_vars

\* A CFB128 call of length 0 at offset 5 went through the hardware (acquire,
\* key programming, release) and returned success with the IV and the
\* offset as passed and no block operation, and so did the other caller's
\* OFB call of length 0 at offset 15; both contexts still hold their keys.
C20_Witness ==
    \E p, q \in Callers :
        /\ call[p].pc = "ret" /\ call[p].fn = "cfb128" /\ call[p].len0 = 0
        /\ call[p].ret = OK /\ call[p].acquires = 1 /\ call[p].keyloads = 1
        /\ call[p].blocks = 0 /\ call[p].iv = IV0 /\ call[p].off = 5
        /\ call[q].pc = "ret" /\ call[q].fn = "ofb" /\ call[q].len0 = 0
        /\ call[q].ret = OK /\ call[q].releases = 1
        /\ call[q].blocks = 0 /\ call[q].iv = IV0 /\ call[q].off = 15
        /\ ctx[p].key_bytes = 32 /\ ctx[p].key = KeyOf(p)
        /\ ctx[q].key_bytes = 16 /\ Slice(ctx[q].key, 0, 16) = Slice(KeyOf(q), 0, 16)

(***************************************************************************)
(* The interleaved model under fairness: both contexts hold a valid key,   *)
(* the callers make mode calls for ever.  A call that can take its next    *)
(* step eventually takes it (the hardware reports idle after each start,   *)
(* the code between two waits is straight-line), and a caller that finds   *)
(* the lock free again and again eventually obtains it.                    *)
(***************************************************************************)
InitLive ==
    /\ ctx = [p \in Callers |->
                esp_aes_setkey(ZeroCtx, KeyOf(p), IF p = 1 THEN 128 ELSE 256).ctx]
    /\ call = [p \in Callers |-> NoCall]
    /\ hw = HwReset
    /\ aborted = FALSE
    /\ trial = NoTrial

NextLive ==
    \E p \in Callers :
        \/ Call(p)
        \/ Validate(p)
        \/ Acquire(p)
        \/ LoadKey(p)
        \/ Loop(p)
        \/ StartBlock(p)
        \/ FinishBlock(p)
        \/ Release(p)
        \/ Return(p)

Fairness ==
    \A p \in Callers :
        /\ WF_vars(Validate(p))
        /\ SF_vars(Acquire(p))
        /\ WF_vars(LoadKey(p))
        /\ WF_vars(Loop(p))
        /\ WF_vars(StartBlock(p))
        /\ WF_vars(FinishBlock(p))
        /\ WF_vars(Release(p))

SpecLive == InitLive /\ [][NextLive]_vars /\ Fairness

\* Caller p is inside a mode call that has not returned.
Running(p) ==
    call[p].pc \in {"entry", "acquire", "setkey", "loop", "blk_start", "blk_read", "release"}

\* The most block operations a call with f's arguments may issue.
BlockLimit(f) ==
    CASE f.fn \in {"internal_encrypt", "internal_decrypt", "ecb"} -> 1
      [] f.fn = "cbc" -> f.len0 \div BLOCK
      [] f.fn = "cfb8" -> f.len0
      [] f.fn \in {"cfb128", "ctr", "ofb"} -> (f.off0 + f.len0 + 15) \div BLOCK
      [] OTHER -> 0

\* C17: every mode call under way, inside the critical section or not,
\* eventually has returned, outside the critical section with the lock not
\* held by its caller and as many releases as acquires, or the process has
\* aborted; and at every moment the block operations a call has issued are
\* within the limit its arguments set.
C17_Terminates ==
    /\ \A p \in Callers :
          Running(p) ~> (\/ aborted
                         \/ /\ call[p].pc = "ret" /\ ~InCS(p) /\ hw.lock # p
                            /\ call[p].acquires = call[p].releases)
    /\ [](\A p \in Callers : call[p].blocks + call[p].blkerrs <= BlockLimit(call[p]))

\* A CTR call of more than one block returned with as many block operations
\* as its limit allows, after it waited for the lock behind the other
\* caller's CBC call, which has returned too.
C17_Witness ==
    \E p, q \in Callers :
        /\ p # q /\ ~aborted /\ hw.lock = 0
        /\ call[p].pc = "ret" /\ call[p].fn = "ctr" /\ call[p].len0 = LongLen
        /\ call[p].ret = OK /\ call[p].blocks = BlockLimit(call[p])
        /\ call[p].blocks = MaxBlocks
        /\ call[q].pc = "ret" /\ call[q].fn = "cbc" /\ call[q].ret = OK
        /\ call[q].blocks = MaxBlocks

(***************************************************************************)
(* The trial models below follow the calls of caller 1 through a           *)
(* trial (a round trip, a stream of chained calls, a pair of calls).  Its  *)
(* calls take the steps of the interleaved model, one at a time, and the   *)
(* other caller, with a key of its own, makes calls of its own in between: *)
(* it may hold the hardware whenever caller 1 is outside its critical      *)
(* section, and waits for the lock while caller 1 is inside.               *)
(***************************************************************************)
OtherArgs ==
    {Arg("ecb", ESP_AES_DECRYPT, BLOCK, 0, TRUE, FALSE)}

\* The context of caller p at the start of a trial: caller 1 holds the key
\* under trial, the other caller a 256-bit key of its own.
TrialCtx(keybits) ==
    [p \in Callers |->
        esp_aes_setkey(ZeroCtx, KeyOf(p), IF p = 1 THEN keybits ELSE 256).ctx]

OtherCall ==
    /\ At(2, "idle")
    /\ \E a \in OtherArgs : call' = [call EXCEPT ![2] = NewCall(a)]
    /\ UNCHANGED <<ctx, hw, aborted, trial>>

\* Caller 1 starts the call with arguments a.
Issue(a) ==
    /\ call' = [call EXCEPT ![1] = NewCall(a)]
    /\ UNCHANGED <<ctx, hw, aborted>>

\* The call of caller 1 with arguments a run alone, on idle hardware, to its
\* return: the reference the trials' calls are compared with.
RunCall(a) == Run(Machine(1, ctx[1], NewCall(a), HwReset, FALSE))

(***************************************************************************)
(* The round-trip model: caller 1, its key set, encrypts a plaintext with  *)
(* one entry point and decrypts the result with the same key and the same  *)
(* initial chaining state.                                                 *)
(*   trial.phase   "start", then "encrypt" from the start of the first     *)
(*                 call, then "decrypt" from the start of the second       *)
(***************************************************************************)
ValidKeyBits == {128, 192, 256}

\* "internal" is the pair esp_internal_aes_encrypt / esp_internal_aes_decrypt.
Modes == {"internal", "ecb", "cbc", "cfb128", "cfb8", "ctr", "ofb"}

StreamModes == {"cfb128", "cfb8", "ctr", "ofb"}

EntryPoint(fn, mode) ==
    IF fn # "internal" THEN fn
    ELSE IF mode = ESP_AES_ENCRYPT THEN "internal_encrypt" ELSE "internal_decrypt"

RoundTripLengths(fn) ==
    CASE fn \in {"internal", "ecb"} -> {BLOCK}
      [] fn = "cbc" -> {l \in 0..MaxRoundTrip : l % BLOCK = 0}
      [] OTHER -> 0..MaxRoundTrip

StartOffsets(fn) == IF fn \in {"cfb128", "ctr", "ofb"} THEN {0, 5} ELSE {0}

InitRoundTrip ==
    /\ \E keybits \in ValidKeyBits : ctx = TrialCtx(keybits)
    /\ call = [p \in Callers |-> NoCall]
    /\ hw = HwReset
    /\ aborted = FALSE
    /\ \E fn \in Modes : \E l \in RoundTripLengths(fn), o \in StartOffsets(fn),
          alias \in BOOLEAN :
          trial = [kind |-> "roundtrip", phase |-> "start", fn |-> fn, off0 |-> o,
                   iv0 |-> IV0, sb0 |-> Pattern(11, BLOCK), plain |-> Pattern(7, l),
                   alias |-> alias]

\* Caller 1 starts the encryption of the plaintext.
Encrypt ==
    /\ trial.kind = "roundtrip" /\ trial.phase = "start" /\ At(1, "idle")
    /\ Issue(ArgOf(EntryPoint(trial.fn, ESP_AES_ENCRYPT), ESP_AES_ENCRYPT, trial.off0,
                   trial.iv0, trial.sb0, trial.plain, trial.alias))
    /\ trial' = [trial EXCEPT !.phase = "encrypt"]

\* The encryption has returned: caller 1 starts the decryption of its output.
Decrypt ==
    /\ trial.kind = "roundtrip" /\ trial.phase = "encrypt" /\ At(1, "ret")
    /\ Issue(ArgOf(EntryPoint(trial.fn, ESP_AES_DECRYPT), ESP_AES_DECRYPT, trial.off0,
                   trial.iv0, trial.sb0, call[1].out, trial.alias))
    /\ trial' = [trial EXCEPT !.phase = "decrypt"]

\* A step of a call under way, of either caller.
CallStep ==
    \E p \in Callers :
        \/ Validate(p)
        \/ Acquire(p)
        \/ LoadKey(p)
        \/ Loop(p)
        \/ StartBlock(p)
        \/ FinishBlock(p)
        \/ Release(p)

NextRoundTrip == Encrypt \/ Decrypt \/ CallStep \/ OtherCall \/ Return(2)

SpecRoundTrip == InitRoundTrip /\ [][NextRoundTrip]_vars

\* The second call of the round trip has returned.
Decrypted == trial.kind = "roundtrip" /\ trial.phase = "decrypt" /\ call[1].pc = "ret"

\* C4: both calls of a round trip return success when they return, whatever
\* the other caller did in between, and the decrypted output is the
\* plaintext.
C4_RoundTrip ==
    trial.kind = "roundtrip" =>
        /\ call[1].pc = "ret" => call[1].ret = OK /\ call[1].acquires = 1
        /\ Decrypted => call[1].out = trial.plain

\* A round trip of the longest buffer is complete, in CFB128 from a non-zero
\* offset, the ciphertext differed from the plaintext, and the other caller
\* has had its own key in the hardware and waits for the lock again.
C4_Witness ==
    /\ Decrypted /\ trial.fn = "cfb128" /\ trial.off0 = 5
    /\ ctx[2].key_in_hardware = 32 /\ call[2].pc = "acquire"
    /\ Len(trial.plain) = MaxRoundTrip /\ ctx[1].key_bytes = 24
    /\ call[1].out = trial.plain /\ call[1].inp # trial.plain
    /\ call[1].blocks >= 2

\* C14: after a CBC decryption of ciphertext blocks c_1..c_m with initial IV
\* c_0, output block k is the block decryption of c_k XOR c_(k-1), the final
\* IV is c_m (the initial IV when m = 0), and the same call on the other
\* buffer arrangement (in place instead of separate, or the reverse) gives
\* the same output and the same final IV.
C14_CbcDecryptIv ==
    (Decrypted /\ trial.fn = "cbc") =>
        LET c       == call[1].inp
            m       == Len(c) \div BLOCK
            prev(k) == IF k = 0 THEN trial.iv0 ELSE Slice(c, BLOCK * (k - 1), BLOCK)
            decrypt == MODE_DECRYPT_BIT + (ctx[1].key_bytes \div 8) - 2
        IN  /\ call[1].iv = prev(m)
            /\ \A k \in 0..(m - 1) :
                   Slice(call[1].out, BLOCK * k, BLOCK) =
                       XorBlock(HwCipher(ctx[1].key, decrypt, Slice(c, BLOCK * k, BLOCK)),
                                prev(k))
            /\ \A other \in {RunCall(ArgOf("cbc", ESP_AES_DECRYPT, trial.off0, trial.iv0,
                                            trial.sb0, c, ~trial.alias))} :
                   /\ other.f.ret = OK /\ ~other.ab
                   /\ other.f.out = call[1].out
                   /\ other.f.iv = call[1].iv

\* An in-place CBC decryption of the longest buffer returned the plaintext;
\* its final IV is the last ciphertext block, which the call overwrote, and
\* not the last plaintext block.
C14_Witness ==
    /\ Decrypted /\ trial.fn = "cbc"
    /\ trial.alias /\ call[1].alias /\ Len(trial.plain) = MaxRoundTrip
    /\ call[1].blocks = MaxRoundTrip \div BLOCK
    /\ call[1].out = trial.plain
    /\ call[1].iv = Slice(call[1].inp, MaxRoundTrip - BLOCK, BLOCK)
    /\ call[1].iv # Slice(call[1].out, MaxRoundTrip - BLOCK, BLOCK)

(***************************************************************************)
(* The chained-call model: caller 1 runs one stream of MaxStream bytes     *)
(* through a byte-wise driver in successive calls of any lengths, threading*)
(* the chaining state (IV/counter, stream block, offset) from call to call.*)
(* The bookkeeping is brought up to date when a call has returned:         *)
(*   trial.done     bytes consumed by the calls that returned              *)
(*   trial.out      the output of those calls, concatenated                *)
(*   trial.iv, sb, off  the chaining state after the last of them          *)
(*   trial.blocks   block operations they issued                           *)
(*   trial.split    whether more than one non-empty call was made          *)
(***************************************************************************)
Counters ==
    {IV0,
     [i \in 1..BLOCK |-> 255],
     [i \in 1..BLOCK |-> IF i = BLOCK THEN 255 ELSE 0],
     [i \in 1..BLOCK |-> IF i = BLOCK THEN 254 ELSE IF i > 12 THEN 255 ELSE 7]}

\* The counter's carries matter to CTR only, whose streams from offset 0
\* start from each of Counters; the other streams start from IV0.
StreamIvs(fn, o) == IF fn = "ctr" /\ o = 0 THEN Counters ELSE {IV0}

\* The chaining of a stream does not look at the key: one key length.
StreamKeyBits == {192}

InitStream ==
    /\ \E keybits \in StreamKeyBits : ctx = TrialCtx(keybits)
    /\ call = [p \in Callers |-> NoCall]
    /\ hw = HwReset
    /\ aborted = FALSE
    /\ \E fn \in StreamModes, mode \in Directions :
       \E o \in IF fn = "cfb8" THEN {0} ELSE {0, 5, 15} : \E iv \in StreamIvs(fn, o) :
          /\ fn \in {"ctr", "ofb"} => mode = ESP_AES_ENCRYPT
          /\ trial = [kind |-> "stream", fn |-> fn, mode |-> mode,
                      iv0 |-> iv, sb0 |-> Pattern(11, BLOCK), off0 |-> o,
                      input |-> Pattern(7, MaxStream),
                      done |-> 0, out |-> << >>,
                      iv |-> iv, sb |-> Pattern(11, BLOCK), off |-> o, blocks |-> 0,
                      split |-> FALSE]

\* Caller 1 starts the next call of the stream: length bytes from where the
\* last call ended, with the chaining state that call left.
StreamCall ==
    /\ trial.kind = "stream" /\ At(1, "idle")
    /\ \E length \in 0..(MaxStream - trial.done) :
          Issue(ArgOf(trial.fn, trial.mode, trial.off, trial.iv, trial.sb,
                      Slice(trial.input, trial.done, length), FALSE))
    /\ UNCHANGED trial

\* The call has returned: caller 1 takes its output and its chaining state.
StreamReturn ==
    /\ trial.kind = "stream" /\ At(1, "ret")
    /\ trial' = [trial EXCEPT !.done = @ + call[1].len0,
                              !.out = @ \o call[1].out,
                              !.iv = call[1].iv, !.sb = call[1].sb,
                              !.off = call[1].off,
                              !.blocks = @ + call[1].blocks,
                              !.split = @ \/ (trial.done > 0 /\ call[1].len0 > 0)]
    /\ call' = [call EXCEPT ![1] = NoCall]
    /\ UNCHANGED <<ctx, hw, aborted>>

NextStream == StreamCall \/ StreamReturn \/ CallStep \/ OtherCall \/ Return(2)

SpecStream == InitStream /\ [][NextStream]_vars

\* Caller 1 is between two calls of the stream.
BetweenCalls == trial.kind = "stream" /\ call[1].pc = "idle"

\* The single call over the bytes the stream has consumed so far.
WholeCall ==
    RunCall(ArgOf(trial.fn, trial.mode, trial.off0, trial.iv0, trial.sb0,
                  Slice(trial.input, 0, trial.done), FALSE)).f

\* C5: whenever caller 1 is between two calls of its stream, the outputs of
\* the calls so far, concatenated, and the chaining state after them are
\* those of one call over the concatenated input.
C5_SplitEqualsWhole ==
    BetweenCalls =>
        \A whole \in {WholeCall} :
            /\ trial.out = whole.out
            /\ trial.iv = whole.iv
            /\ trial.sb = whole.sb
            /\ trial.off = whole.off

\* A CFB128 decryption from offset 15 consumed the whole stream in more than
\* one non-empty call, across two fresh blocks, while the other caller, its
\* key programmed in an earlier call, waits for the lock of its next one.
C5_Witness ==
    /\ BetweenCalls /\ trial.fn = "cfb128" /\ trial.mode = ESP_AES_DECRYPT
    /\ trial.off0 = 15 /\ trial.done = MaxStream /\ trial.split
    /\ trial.blocks >= 2 /\ trial.off = (15 + MaxStream) % 16
    /\ Len(trial.out) = MaxStream /\ trial.out # trial.input
    /\ ctx[2].key_in_hardware = 32

\* The bytes among the first n of a stream started at offset o that are
\* consumed at offset 0.
FreshBlocks(o, n) == Cardinality({k \in 0..(n - 1) : (o + k) % 16 = 0})

\* The big-endian 128-bit value nc plus k, modulo 2^128.
RECURSIVE AddBigEndian(_, _, _)
AddBigEndian(nc, k, i) ==
    IF i = 0 THEN nc
    ELSE AddBigEndian([nc EXCEPT ![i] = (nc[i] + k) % 256], (nc[i] + k) \div 256, i - 1)

\* C9: after consuming n bytes the CTR counter is the initial counter plus
\* the number of bytes consumed at offset 0 (ceil(n/16) from offset 0), as a
\* big-endian integer modulo 2^128, and the stream block is the encryption
\* of the counter as it was before its last increment.
C9_CounterBigEndian ==
    (trial.kind = "stream" /\ trial.fn = "ctr") =>
        LET fresh == FreshBlocks(trial.off0, trial.done)
        IN  /\ trial.off0 = 0 => fresh = (trial.done + 15) \div 16
            /\ trial.iv = AddBigEndian(trial.iv0, fresh, BLOCK)
            /\ fresh > 0 =>
                  trial.sb = HwCipher(ctx[1].key,
                                      ModeRegValue(ctx[1], ESP_AES_ENCRYPT),
                                      AddBigEndian(trial.iv0, fresh - 1, BLOCK))

\* A counter of sixteen 0xFF bytes was used for the first of two keystream
\* blocks and wrapped to zero before the second.
C9_Witness ==
    /\ trial.kind = "stream" /\ trial.fn = "ctr" /\ trial.off0 = 0
    /\ trial.iv0 = [i \in 1..BLOCK |-> 255]
    /\ trial.done = BLOCK + 1 /\ trial.blocks = 2 /\ trial.split
    /\ trial.iv = [i \in 1..BLOCK |-> IF i = BLOCK THEN 1 ELSE 0]

\* C10: for CFB128, CTR and OFB the stored offset stays in 0..15 and equals
\* (initial offset + bytes consumed) mod 16, and the block operations issued
\* are exactly one per byte consumed at offset 0.
C10_OffsetAndBlocks ==
    (trial.kind = "stream" /\ trial.fn \in {"cfb128", "ctr", "ofb"}) =>
        /\ trial.off \in 0..15
        /\ trial.off = (trial.off0 + trial.done) % 16
        /\ trial.blocks = FreshBlocks(trial.off0, trial.done)

\* An OFB stream started at offset 15 consumed the whole stream: one byte of
\* the old block, then two fresh blocks.
C10_Witness ==
    /\ trial.kind = "stream" /\ trial.fn = "ofb" /\ trial.off0 = 15
    /\ trial.done = MaxStream /\ trial.blocks >= 2 /\ trial.split
    /\ trial.off = (15 + MaxStream) % 16

(***************************************************************************)
(* The two-input model: caller 1 makes the same CTR or OFB call twice,     *)
(* with the same key, counter/IV, stream block, offset and length, on two  *)
(* different inputs.                                                       *)
(*   trial.phase    "start", "one" during the first call, "two" from the   *)
(*                  start of the second                                    *)
(*   trial.first    the frame of the first call at its return              *)
(***************************************************************************)
InitPair ==
    /\ \E keybits \in ValidKeyBits : ctx = TrialCtx(keybits)
    /\ call = [p \in Callers |-> NoCall]
    /\ hw = HwReset
    /\ aborted = FALSE
    /\ \E fn \in {"ctr", "ofb"} : \E iv \in StreamIvs(fn, 0), o \in {0, 5, 15}, l \in 0..MaxPair :
          trial = [kind |-> "pair", phase |-> "start", fn |-> fn,
                   iv0 |-> iv, sb0 |-> Pattern(11, BLOCK), off0 |-> o,
                   inputA |-> Pattern(7, l), inputB |-> Pattern(19, l),
                   first |-> NoCall]

\* Caller 1 starts the call on the first input.
FirstCall ==
    /\ trial.kind = "pair" /\ trial.phase = "start" /\ At(1, "idle")
    /\ Issue(ArgOf(trial.fn, ESP_AES_ENCRYPT, trial.off0, trial.iv0,
                   trial.sb0, trial.inputA, FALSE))
    /\ trial' = [trial EXCEPT !.phase = "one"]

\* The first call has returned: caller 1 keeps its results and starts the
\* same call on the second input.
SecondCall ==
    /\ trial.kind = "pair" /\ trial.phase = "one" /\ At(1, "ret")
    /\ Issue(ArgOf(trial.fn, ESP_AES_ENCRYPT, trial.off0, trial.iv0,
                   trial.sb0, trial.inputB, FALSE))
    /\ trial' = [trial EXCEPT !.phase = "two", !.first = call[1]]

NextPair == FirstCall \/ SecondCall \/ CallStep \/ OtherCall \/ Return(2)

SpecPair == InitPair /\ [][NextPair]_vars

\* Both calls of the pair have returned.
BothReturned == trial.kind = "pair" /\ trial.phase = "two" /\ call[1].pc = "ret"

\* C19: two CTR or OFB calls that differ only in their input bytes, with
\* the other caller's calls in between, both return success, end with the same counter/IV, stream block and offset
\* after the same number of block operations, and their outputs differ
\* byte by byte by the XOR of their inputs.
C19_ChainingIgnoresData ==
    BothReturned =>
        LET a == trial.first
            b == call[1]
        IN  /\ a.ret = OK /\ b.ret = OK
            /\ a.pc = "ret" /\ b.pc = "ret"
            /\ a.iv = b.iv /\ a.sb = b.sb /\ a.off = b.off
            /\ a.blocks = b.blocks
            /\ Len(a.out) = Len(trial.inputA) /\ Len(b.out) = Len(trial.inputA)
            /\ \A i \in 1..Len(trial.inputA) :
                   Xor(a.out[i], b.out[i]) = Xor(trial.inputA[i], trial.inputB[i])

\* Two OFB calls of the longest buffer from offset 15, on inputs that differ
\* in every byte, gave different outputs and the same final IV, two block
\* operations away from the initial one; the other caller has had its own
\* key in the hardware meanwhile.
C19_Witness ==
    /\ BothReturned /\ trial.fn = "ofb" /\ ctx[2].key_in_hardware = 32
    /\ trial.off0 = 15 /\ Len(trial.inputA) = MaxPair
    /\ \A i \in 1..MaxPair : trial.inputA[i] # trial.inputB[i]
    /\ trial.first.out # call[1].out
    /\ trial.first.iv = call[1].iv /\ call[1].iv # trial.iv0
    /\ call[1].blocks = 2 /\ call[1].off = (15 + MaxPair) % 16

(***************************************************************************)
(* The CFB8 model: the callers, their keys set, make CFB8 calls that take  *)
(* the steps of the interleaved model.  Caller 1 passes every mode value   *)
(* (a direction or neither), every length up to MaxBlocks, distinct or     *)
(* aliased buffers; with a mode that is neither direction each byte's      *)
(* step reads the uninitialised ov[16], with any byte as the outcome.      *)
(* Caller 2 passes the two directions, and also makes the ECB call of the  *)
(* trial models.                                                           *)
(***************************************************************************)
Cfb8Args(p) ==
    IF p = 1
    THEN {Arg("cfb8", m, l, 0, alias, FALSE) :
            m \in ModeValues, l \in 0..MaxBlocks, alias \in BOOLEAN}
    ELSE {Arg("cfb8", m, MaxBlocks, 0, FALSE, FALSE) : m \in Directions} \cup OtherArgs

InitCfb8 ==
    /\ \E keybits \in ValidKeyBits : ctx = TrialCtx(keybits)
    /\ call = [p \in Callers |-> NoCall]
    /\ hw = HwReset
    /\ aborted = FALSE
    /\ trial = NoTrial

Cfb8Call ==
    \E p \in Callers :
        /\ At(p, "idle")
        /\ \E a \in Cfb8Args(p) : call' = [call EXCEPT ![p] = NewCall(a)]
        /\ UNCHANGED <<ctx, hw, aborted, trial>>

Cfb8Return == \E p \in Callers : Return(p)

NextCfb8 == Cfb8Call \/ CallStep \/ Cfb8Return

SpecCfb8 == InitCfb8 /\ [][NextCfb8]_vars

\* C15: in a CFB8 call the block operations started equal the bytes
\* processed (one more while a byte's operation is under way), each starts
\* from the current IV, and the step that completes a byte finds the text
\* registers holding the encryption e of that IV, writes e[0] XOR the input
\* byte to the output, and makes the IV the old IV's bytes 1..15 followed,
\* in either direction, by the ciphertext byte: the byte produced on
\* encrypt, the input byte on decrypt.
C15_Cfb8PerByte ==
    [][\A p \in Callers :
          LET f == call[p]
          IN  f.fn = "cfb8" =>
                /\ f.pc \in {"loop", "blk_start", "release"} => f.blocks = f.pos
                /\ f.pc = "blk_start" => f.regs = f.iv /\ hw.text = f.iv
                /\ f.pc = "blk_read" => f.blocks = f.pos + 1
                /\ (f.pc = "ret" /\ f.ret = OK) => f.blocks = f.len0 /\ f.pos = f.len0
                /\ (f.pc = "blk_read" /\ Stepped(p) /\ ~aborted') =>
                      LET e    == HwCipher(hw.key, (ctx[p].key_bytes \div 8) - 2, f.regs)
                          byte == Xor(e[1], f.inp[f.pos + 1])
                      IN  /\ hw.text = e
                          /\ call'[p].out = [f.out EXCEPT ![f.pos + 1] = byte]
                          /\ \A i \in 1..(BLOCK - 1) : call'[p].iv[i] = f.regs[i + 1]
                          /\ f.mode = ESP_AES_ENCRYPT => call'[p].iv[BLOCK] = byte
                          /\ f.mode = ESP_AES_DECRYPT =>
                                call'[p].iv[BLOCK] = f.inp[f.pos + 1]
                          /\ call'[p].pos = f.pos + 1
                          /\ call'[p].blocks = f.blocks]_vars

\* Both callers' CFB8 calls of MaxBlocks bytes returned after as many block
\* operations each: a decryption with the last input byte as byte 15 of the
\* IV and a different byte in the output, and an encryption with the last
\* output byte as byte 15 of the IV and a different byte in the input.
C15_Witness ==
    \E p, q \in Callers :
        /\ call[p].pc = "ret" /\ call[p].fn = "cfb8" /\ call[p].mode = ESP_AES_DECRYPT
        /\ call[p].ret = OK /\ call[p].len0 = MaxBlocks /\ call[p].blocks = MaxBlocks
        /\ call[p].iv[BLOCK] = call[p].inp[MaxBlocks]
        /\ call[p].iv[BLOCK] # call[p].out[MaxBlocks]
        /\ call[q].pc = "ret" /\ call[q].fn = "cfb8" /\ call[q].mode = ESP_AES_ENCRYPT
        /\ call[q].ret = OK /\ call[q].len0 = MaxBlocks /\ call[q].blocks = MaxBlocks
        /\ call[q].iv[BLOCK] = call[q].out[MaxBlocks]
        /\ call[q].iv[BLOCK] # call[q].inp[MaxBlocks]

=============================================================================
